---- MODULE Spec2Model ----
(***************************************************************************)
(* Model of the Dispenser class of src/Dispenser.cpp: an ordered vector of *)
(* hopper pointers, a cached size, a current index, and the servo writes   *)
(* that openDispenser / closeDispenser issue.                              *)
(*                                                                         *)
(* One action per member function.  Every action records the call (op,     *)
(* idx, hop) and its outcome (ret, err, signals), so that a property can   *)
(* speak about "the call that has just returned".                          *)
(*                                                                         *)
(* int arithmetic is C++ arithmetic: % truncates toward zero (CMod).       *)
(* Undefined behaviour is a nondeterministic choice:                       *)
(*   - an out-of-bounds read of the vector returns any pointer (a stored   *)
(*     handle or the wild pointer Wild) or crashes the process;            *)
(*   - an out-of-bounds erase / insert, and index % 0, crash the process   *)
(*     or corrupt the vector silently (fault = "corrupt": the contents of  *)
(*     hoppers are no longer meaningful and every later access to the      *)
(*     vector is undefined again).                                         *)
(* A crashed process takes no further step.                                *)
(*                                                                         *)
(* Spec starts from the constructor.  Since addHopper throws on an empty   *)
(* registry, Spec never holds a hopper; SpecAny therefore also starts the  *)
(* member functions on a registry that holds one hopper, and reaches every *)
(* larger registry through the functions themselves.                       *)
(***************************************************************************)
EXTENDS Integers, Sequences, FiniteSets

VARIABLES hoppers, size, current_index, signals, op, idx, hop, ret, err, fault

vars == <<hoppers, size, current_index, signals, op, idx, hop, ret, err, fault>>

registry == <<hoppers, size, current_index>>

(* ---------------------------- bounds -------------------------------- *)

\* addHopper is not called once size has reached MaxSize
MaxSize == 5

\* the index arguments tried are -MaxNeg .. MaxSize + 1
MaxNeg == 2

(* ------------------------ program constants ------------------------- *)

\* if (current_index == 4): the multicoloured light
AllIndex == 4

\* softServoWrite((current_index+5), ...)
ServoOffset == 5

\* softServoWrite(.., 60)
OpenLevel == 60

\* softServoWrite(.., 0)
CloseLevel == 0

(* --------------------------- value sets ----------------------------- *)

\* the Hopper objects the caller owns (pointer identities)
Handles == {"A", "B"}

\* a pointer read from outside the vector's elements
Wild == "wild"

Indices == (0 - MaxNeg)..(MaxSize + 1)

NoArg == "-"

\* ret is <<>> for a call that returned nothing, <<v>> for one that returned v
NoRet == <<>>

(* ------------------------- C++ arithmetic --------------------------- *)

\* a % b for ints, b > 0: the result has the sign of the dividend
CMod(a, b) == IF a >= 0 THEN a % b ELSE 0 - ((0 - a) % b)

(* ------------------------ std::vector helpers ----------------------- *)

\* positions are 0-based as in the source; TLA+ sequences are 1-based
ValidPos(v, p) == p >= 0 /\ p < Len(v)

At(v, p) == v[p + 1]

\* v.insert(v.begin() + p, h), 0 <= p <= Len(v)
InsertAt(v, p, h) == SubSeq(v, 1, p) \o <<h>> \o SubSeq(v, p + 1, Len(v))

\* v.erase(v.begin() + p), 0 <= p < Len(v)
EraseAt(v, p) == SubSeq(v, 1, p) \o SubSeq(v, p + 2, Len(v))

\* a search that returns the last occurrence instead of the first
FindPos_Last(v, h) ==
    IF \E n \in 1..Len(v) : v[n] = h
    THEN (CHOOSE n \in 1..Len(v) : v[n] = h /\ \A m \in (n + 1)..Len(v) : v[m] /= h) - 1
    ELSE Len(v)

\* distance(v.begin(), std::find(v.begin(), v.end(), h)); Len(v) when absent
FindPos(v, h) ==
    IF \E n \in 1..Len(v) : v[n] = h
    THEN (CHOOSE n \in 1..Len(v) : v[n] = h /\ \A m \in 1..(n - 1) : v[m] /= h) - 1
    ELSE Len(v)

(* --------------------------- call record ---------------------------- *)

Call(name, i, h) == op' = name /\ idx' = i /\ hop' = h

Returns(v) == ret' = <<v>> /\ err' = "none"

ReturnsVoid == ret' = NoRet /\ err' = "none"

Throws == ret' = NoRet /\ err' = "out_of_range"

\* the process dies (SIGSEGV / SIGFPE): nothing is returned
Crashes == fault' = "crash" /\ ret' = NoRet /\ err' = "none"

Alive == fault /= "crash"

(* ------------------------------ Init -------------------------------- *)

NoCall ==
    /\ signals = <<>>
    /\ op = "new"
    /\ idx = NoArg
    /\ hop = NoArg
    /\ ret = NoRet
    /\ err = "none"
    /\ fault = "none"

\* Dispenser::Dispenser()
Init ==
    /\ hoppers = <<>>
    /\ size = 0
    /\ current_index = 0
    /\ NoCall

\* a registry that already holds one hopper: the input state of the
\* operations whose contract is about a populated registry (addHopper
\* itself cannot put the first hopper in, see C1)
InitLoaded ==
    /\ \E h \in Handles : hoppers = <<h>>
    /\ size = 1
    /\ current_index = 0
    /\ NoCall

(* ----------------------------- getters ------------------------------ *)

getCurrentIndex ==
    /\ Alive
    /\ Call("getCurrentIndex", NoArg, NoArg)
    /\ Returns(current_index)
    /\ signals' = <<>>
    /\ UNCHANGED <<hoppers, size, current_index, fault>>

getSize ==
    /\ Alive
    /\ Call("getSize", NoArg, NoArg)
    /\ Returns(size)
    /\ signals' = <<>>
    /\ UNCHANGED <<hoppers, size, current_index, fault>>

\* this->hoppers[index % this->size], size > 0
ReadHopper(index) ==
    LET p == CMod(index, size) IN
    IF fault = "none" /\ ValidPos(hoppers, p)
    THEN Returns(At(hoppers, p)) /\ UNCHANGED fault
    ELSE \/ (\E w \in Handles \cup {Wild} : Returns(w)) /\ UNCHANGED fault
         \/ Crashes

getHopperBody(index) ==
    IF size = 0
    THEN Throws /\ UNCHANGED fault
    ELSE ReadHopper(index)

getHopper(index) ==
    /\ Alive
    /\ Call("getHopper", index, NoArg)
    /\ getHopperBody(index)
    /\ signals' = <<>>
    /\ UNCHANGED <<hoppers, size, current_index>>

getHopperCurrent ==
    /\ Alive
    /\ Call("getHopperCurrent", NoArg, NoArg)
    /\ IF size = 0
       THEN Throws /\ UNCHANGED fault
       ELSE getHopperBody(current_index)
    /\ signals' = <<>>
    /\ UNCHANGED <<hoppers, size, current_index>>

(* --------------------------- navigation ----------------------------- *)

\* new_index % this->size
SetIndexValue(new_index, sz) == CMod(new_index, sz)

setCurrentIndex(new_index) ==
    /\ Alive
    /\ Call("setCurrentIndex", new_index, NoArg)
    /\ IF size = 0
       THEN Throws /\ UNCHANGED current_index
       ELSE /\ current_index' = SetIndexValue(new_index, size)
            /\ Returns(current_index')
    /\ signals' = <<>>
    /\ UNCHANGED <<hoppers, size, fault>>

\* a step of two positions
NextIndexValue_Skip(cur, sz) == CMod(cur + 2, sz)

\* (this->current_index + 1) % this->size
NextIndexValue(cur, sz) == CMod(cur + 1, sz)

nextIndex ==
    /\ Alive
    /\ Call("nextIndex", NoArg, NoArg)
    /\ IF size = 0
       THEN Throws /\ UNCHANGED current_index
       ELSE /\ current_index' = NextIndexValue(current_index, size)
            /\ Returns(current_index')
    /\ signals' = <<>>
    /\ UNCHANGED <<hoppers, size, fault>>

(* ---------------------------- actuation ----------------------------- *)

\* the single hopper addressed by its index, without the servo offset
ServoWrites_NoOffset(level) ==
    IF current_index = AllIndex
    THEN [n \in 1..size |-> <<n - 1, level>>]
    ELSE << <<current_index, level>> >>

\* the softServoWrite calls of openDispenser / closeDispenser, in order
ServoWrites(level) ==
    IF current_index = AllIndex
    THEN [n \in 1..size |-> <<n - 1, level>>]
    ELSE << <<current_index + ServoOffset, level>> >>

\* openDispenser without its size == 0 test
openDispenser_NoCheck ==
    /\ Alive
    /\ Call("openDispenser", NoArg, NoArg)
    /\ ReturnsVoid
    /\ signals' = ServoWrites(OpenLevel)
    /\ UNCHANGED <<hoppers, size, current_index, fault>>

openDispenser ==
    /\ Alive
    /\ Call("openDispenser", NoArg, NoArg)
    /\ IF size = 0
       THEN Throws /\ signals' = <<>>
       ELSE ReturnsVoid /\ signals' = ServoWrites(OpenLevel)
    /\ UNCHANGED <<hoppers, size, current_index, fault>>

\* closeDispenser writing the servo before its size == 0 test
closeDispenser_WriteFirst ==
    /\ Alive
    /\ Call("closeDispenser", NoArg, NoArg)
    /\ signals' = ServoWrites(CloseLevel)
    /\ IF size = 0 THEN Throws ELSE ReturnsVoid
    /\ UNCHANGED <<hoppers, size, current_index, fault>>

\* closeDispenser without the all-hoppers branch
closeDispenser_NoBroadcast ==
    /\ Alive
    /\ Call("closeDispenser", NoArg, NoArg)
    /\ IF size = 0
       THEN Throws /\ signals' = <<>>
       ELSE ReturnsVoid /\ signals' = << <<current_index + ServoOffset, CloseLevel>> >>
    /\ UNCHANGED <<hoppers, size, current_index, fault>>

closeDispenser ==
    /\ Alive
    /\ Call("closeDispenser", NoArg, NoArg)
    /\ IF size = 0
       THEN Throws /\ signals' = <<>>
       ELSE ReturnsVoid /\ signals' = ServoWrites(CloseLevel)
    /\ UNCHANGED <<hoppers, size, current_index, fault>>

(* ----------------------------- addHopper ---------------------------- *)

\* Dispenser::addHopper(Hopper*, int)
addHopperBody(new_hopper, index) ==
    IF size = 0
    THEN Throws /\ UNCHANGED <<hoppers, size, fault>>
    ELSE /\ size' = size + 1
         /\ IF index = size
            THEN \* hoppers.push_back(new_hopper)
                 IF fault = "none"
                 THEN /\ hoppers' = Append(hoppers, new_hopper)
                      /\ Returns(CMod(index, size'))
                      /\ UNCHANGED fault
                 ELSE /\ UNCHANGED hoppers
                      /\ \/ Returns(CMod(index, size')) /\ UNCHANGED fault
                         \/ Crashes
            ELSE LET insert_index == CMod(index, size') IN
                 IF fault = "none" /\ insert_index >= 0 /\ insert_index <= Len(hoppers)
                 THEN /\ hoppers' = InsertAt(hoppers, insert_index, new_hopper)
                      /\ Returns(CMod(index, size'))
                      /\ UNCHANGED fault
                 ELSE \* insert outside [begin(), end()]
                      /\ UNCHANGED hoppers
                      /\ \/ Returns(CMod(index, size')) /\ fault' = "corrupt"
                         \/ Crashes

addHopperAt(new_hopper, index) ==
    /\ Alive
    /\ size < MaxSize
    /\ Call("addHopperAt", index, new_hopper)
    /\ addHopperBody(new_hopper, index)
    /\ signals' = <<>>
    /\ UNCHANGED current_index

\* the append form passing one past the end
AppendIndex_OffByOne == size + 1

\* the index Dispenser::addHopper(Hopper*) passes on
AppendIndex == size

addHopper(new_hopper) ==
    /\ Alive
    /\ size < MaxSize
    /\ Call("addHopper", NoArg, new_hopper)
    /\ addHopperBody(new_hopper, AppendIndex)
    /\ signals' = <<>>
    /\ UNCHANGED current_index

(* --------------------------- removeHopper --------------------------- *)

\* Dispenser::removeHopper(int): hoppers.erase(begin() + index % size)
removeHopperBody(index) ==
    /\ UNCHANGED size
    /\ IF size = 0
       THEN \* index % 0
            /\ UNCHANGED hoppers
            /\ \/ ReturnsVoid /\ fault' = "corrupt"
               \/ Crashes
       ELSE LET p == CMod(index, size) IN
            IF fault = "none" /\ ValidPos(hoppers, p)
            THEN /\ hoppers' = EraseAt(hoppers, p)
                 /\ ReturnsVoid
                 /\ UNCHANGED fault
            ELSE \* erase of a position that holds no element
                 /\ UNCHANGED hoppers
                 /\ \/ ReturnsVoid /\ fault' = "corrupt"
                    \/ Crashes

\* a removal that also resets the current index
removeHopperAt_ResetIndex(index) ==
    /\ Alive
    /\ Call("removeHopperAt", index, NoArg)
    /\ removeHopperBody(index)
    /\ signals' = <<>>
    /\ current_index' = 0

removeHopperAt(index) ==
    /\ Alive
    /\ Call("removeHopperAt", index, NoArg)
    /\ removeHopperBody(index)
    /\ signals' = <<>>
    /\ UNCHANGED current_index

\* Dispenser::removeHopper(Hopper*)
removeHopper(hopper) ==
    /\ Alive
    /\ Call("removeHopper", NoArg, hopper)
    /\ IF fault = "none"
       THEN removeHopperBody(FindPos(hoppers, hopper))
       ELSE \* std::find over a corrupted vector
            /\ UNCHANGED <<hoppers, size>>
            /\ \/ ReturnsVoid /\ fault' = "corrupt"
               \/ Crashes
    /\ signals' = <<>>
    /\ UNCHANGED current_index

(* ------------------------------- Next ------------------------------- *)

Next ==
    \/ getCurrentIndex
    \/ getSize
    \/ \E i \in Indices : getHopper(i)
    \/ getHopperCurrent
    \/ \E i \in Indices : setCurrentIndex(i)
    \/ nextIndex
    \/ openDispenser
    \/ closeDispenser
    \/ \E h \in Handles : addHopper(h)
    \/ \E h \in Handles, i \in Indices : addHopperAt(h, i)
    \/ \E i \in Indices : removeHopperAt(i)
    \/ \E h \in Handles : removeHopper(h)

\* the program as constructed
Spec == Init /\ [][Next]_vars

\* the operations applied to a registry that is empty or holds one hopper
InitAny == Init \/ InitLoaded

SpecAny == InitAny /\ [][Next]_vars

\* a caller that does nothing but call nextIndex
Traversing == op = "nextIndex"

\* the vectors SpecAny builds: every sequence of at most MaxSize handles
Vectors == UNION {[1..n -> Handles] : n \in 0..MaxSize}

\* the intact registries SpecAny reaches: size counts the additions, so the
\* vector is no longer than size, and |current_index| < size is a remainder
\* of one of the indices tried
RegistryShape ==
    \/ hoppers = <<>> /\ size = 0 /\ current_index = 0
    \/ /\ hoppers \in Vectors
       /\ size \in 1..MaxSize
       /\ Len(hoppers) <= size
       /\ current_index \in (0 - MaxNeg)..(size - 1)
       /\ current_index > 0 - size

\* a traversal may start in any of these registries
InitTraverse == RegistryShape /\ NoCall

\* nextIndex is called again and again, and nothing else is
SpecTraverse == InitTraverse /\ [][nextIndex]_vars /\ WF_vars(nextIndex)

(* ============================= claims =============================== *)

\* an actual call is one that has an outcome recorded
Called(names) == op' \in names

\* the mathematical residue of i modulo n, n > 0, always in 0..n-1
Residue(i, n) == ((i % n) + n) % n

\* what hopperAt(i) yields when the read is inside the vector
Stored(v, sz, i) == ValidPos(v, CMod(i, sz)) /\ CMod(i, sz) = Residue(i, sz)

\* C1: starting from the empty registry of the constructor, the append form
\* addHopper(h) raises no error, size becomes 1 and hopperAt(0) is h.
C1_AppendOnEmptySucceeds ==
    [][ (hoppers = <<>> /\ size = 0 /\ current_index = 0 /\ fault = "none"
           /\ Called({"addHopper"}))
        => (/\ err' = "none"
            /\ fault' = "none"
            /\ size' = 1
            /\ hoppers' = <<hop'>>) ]_vars

IndexDependent ==
    {"getHopper", "getHopperCurrent", "setCurrentIndex", "nextIndex",
     "openDispenser", "closeDispenser"}

\* C4: on a registry with size = 0, getHopper(i), getHopper(),
\* setCurrentIndex(i), nextIndex(), openDispenser(), closeDispenser() and
\* addHopper(h, i) with a non-append index i /= size all throw out_of_range.
C4_EmptyThrows ==
    [][ (size = 0 /\ (\/ Called(IndexDependent)
                      \/ Called({"addHopperAt"}) /\ idx' /= size))
        => (err' = "out_of_range" /\ ret' = NoRet) ]_vars

C4_Witness ==
    /\ size = 0
    /\ op = "addHopperAt"
    /\ idx = 0 - 1
    /\ err = "out_of_range"

\* C5: a call that throws leaves hoppers, size and current_index as they
\* were and has written no servo.
C5_ThrowChangesNothing ==
    [][ err' = "out_of_range"
        => (/\ hoppers' = hoppers
            /\ size' = size
            /\ current_index' = current_index
            /\ fault' = fault
            /\ signals' = <<>>) ]_vars

C5_Witness ==
    /\ op = "closeDispenser"
    /\ err = "out_of_range"
    /\ registry = <<(<<>>), 0, 0>>
    /\ signals = <<>>

RECURSIVE AdvanceTimes(_, _, _)
\* current_index after n calls of nextIndex with nothing in between
AdvanceTimes(cur, sz, n) ==
    IF n = 0 THEN cur ELSE AdvanceTimes(NextIndexValue(cur, sz), sz, n - 1)

IndexFormOutcome(h, i) ==
    /\ addHopperBody(h, i)
    /\ signals' = <<>>
    /\ current_index' = current_index

\* the outcome of addHopper(h) as a relation between two states
AppendFormOutcome(h) ==
    /\ addHopperBody(h, AppendIndex)
    /\ signals' = <<>>
    /\ current_index' = current_index

\* C9: addHopper(h, size) and addHopper(h) have the same outcome from the
\* same state: every result of the one is a result of the other.
C9_AppendEqualsInsertAtSize ==
    [][ /\ Called({"addHopper"}) => IndexFormOutcome(hop', size)
        /\ (Called({"addHopperAt"}) /\ idx' = size) => AppendFormOutcome(hop')
      ]_vars

C9_Witness ==
    /\ op = "addHopper"
    /\ err = "none"
    /\ fault = "none"
    /\ size = 3
    /\ ret = <<2>>
    /\ Len(hoppers) = 3
    /\ hoppers[3] = hop

FirstAt(v, h, n) == v[n] = h /\ \A m \in 1..(n - 1) : v[m] /= h

\* C12: removeHopper(handle) with a handle that is stored removes exactly
\* its first occurrence, wherever it is, and keeps the order of the others.
C12_RemoveFirstOccurrence ==
    [][ (/\ fault = "none"
         /\ Called({"removeHopper"})
         /\ \E n \in 1..Len(hoppers) : hoppers[n] = hop')
        => (/\ err' = "none"
            /\ fault' = "none"
            /\ \E n \in 1..Len(hoppers) :
                  /\ FirstAt(hoppers, hop', n)
                  /\ hoppers' = SubSeq(hoppers, 1, n - 1)
                                   \o SubSeq(hoppers, n + 1, Len(hoppers)))
      ]_vars

\* a handle stored twice, its first occurrence not in front, has been removed
\* after an earlier removal
C12_Witness ==
    /\ op = "removeHopper"
    /\ hop = "A"
    /\ fault = "none"
    /\ hoppers = <<"B", "B", "A">>
    /\ size = 5

\* C13: removeHopper(handle) with a handle that is not stored fails with
\* NotFound and changes nothing; no other hopper is removed.
C13_AbsentHandleNotFound ==
    [][ (/\ fault = "none"
         /\ Called({"removeHopper"})
         /\ \A n \in 1..Len(hoppers) : hoppers[n] /= hop')
        => (/\ err' = "not_found"
            /\ fault' = "none"
            /\ hoppers' = hoppers
            /\ size' = size
            /\ current_index' = current_index)
      ]_vars

\* C14: removeHopper(i) on a registry with size = 0 throws out_of_range and
\* changes nothing, for every i.
C14_RemoveOnEmptyThrows ==
    [][ (size = 0 /\ fault = "none" /\ Called({"removeHopperAt"}))
        => (/\ err' = "out_of_range"
            /\ fault' = "none"
            /\ hoppers' = hoppers
            /\ size' = size
            /\ current_index' = current_index)
      ]_vars

\* C15: on a non-empty registry openDispenser writes level 60 to servo
\* 0 .. size-1 and nothing else when current_index is 4, and otherwise writes
\* level 60 once, to servo current_index + 5; it changes neither size, the
\* vector nor current_index.
C15_OpenSignals ==
    [][ (size > 0 /\ Called({"openDispenser"}))
        => (/\ err' = "none"
            /\ signals' = IF current_index = 4
                          THEN [n \in 1..size |-> <<n - 1, 60>>]
                          ELSE << <<current_index + 5, 60>> >>
            /\ hoppers' = hoppers
            /\ size' = size
            /\ current_index' = current_index)
      ]_vars

C15_Witness ==
    /\ op = "openDispenser"
    /\ err = "none"
    /\ current_index = 4
    /\ size = 5
    /\ Len(signals) = 5
    /\ signals[5] = <<4, 60>>

\* C16: closeDispenser called right after openDispenser fails exactly when
\* openDispenser failed, and otherwise writes level 0 to exactly the servos
\* to which openDispenser wrote level 60.
C16_CloseMirrorsOpen ==
    [][ (op = "openDispenser" /\ Called({"closeDispenser"}))
        => (/\ err' = err
            /\ Len(signals') = Len(signals)
            /\ \A n \in 1..Len(signals) :
                  /\ signals[n][2] = 60
                  /\ signals'[n] = <<signals[n][1], 0>>)
      ]_vars

C16_Witness ==
    /\ op = "closeDispenser"
    /\ err = "none"
    /\ current_index = 4
    /\ signals = [n \in 1..5 |-> <<n - 1, 0>>]

C18_RemoveKeepsCurrent ==
    [][ Called({"removeHopperAt", "removeHopper"})
        => current_index' = current_index ]_vars

\* a removal after which current_index points past the last element
C18_Witness ==
    /\ op = "removeHopperAt"
    /\ fault = "none"
    /\ current_index = 2
    /\ Len(hoppers) = 2

C20_TraversalReachesAll ==
    /\ \A p \in 0..(MaxSize - 1) :
          (Traversing /\ err = "none" /\ p < size) ~> (current_index = p)
    /\ [][ (size > 0 /\ Called({"nextIndex"}))
           => current_index' = IF current_index = size - 1
                               THEN 0
                               ELSE current_index + 1 ]_vars

\* nextIndex has just wrapped from the last position of three to 0
C20_Witness ==
    /\ Traversing
    /\ err = "none"
    /\ size = 3
    /\ current_index = 0
    /\ ret = <<0>>

====
